---- MODULE Spec2Model ----
(***************************************************************************)
(* The OS plugin (src/unnamed/part_001): the supervisor that receives      *)
(* session and process telemetry from agents, asks the Allow2 oracle for   *)
(* quota verdicts and triggers show-warning / kill-process / logout-user   *)
(* actions on the agents, arming setTimeout callbacks for deferred         *)
(* warnings and logouts.                                                   *)
(*                                                                         *)
(* Time is in seconds.  `await allow2Client.checkActivity` is a suspension *)
(* point: the rest of checkQuotasAndEnforce is a continuation kept in      *)
(* `inflight` and resumed by OracleRespond / OracleFail.  The awaits on    *)
(* agentService.triggerAction dispatch the action at the call and are      *)
(* taken to resolve without another event being handled in between.       *)
(*                                                                         *)
(* An agent's record is created by os:linkAgent or os:triggerFocusMode, is *)
(* part of the loaded state, or is written by deployToAgent.  The          *)
(* deployments (onLoad, agentDiscovered) replace a record only in the      *)
(* specifications without the quota service, where no continuation of      *)
(* checkQuotasAndEnforce holds the record it replaces; elsewhere a         *)
(* callback reads the live record.                                         *)
(*                                                                         *)
(* The usage cells and the journals are written and never read by the      *)
(* handlers.  A specification follows them when its `followed` set names   *)
(* them ("usage", "journal"); the others leave them at their initial       *)
(* value.  lastSnapshotAt, lastSeen and switchedAt record when reports     *)
(* were handled, for the properties of the usage cells.  A specification   *)
(* that follows anything sees its telemetry and its commands in `event`.   *)
(*                                                                         *)
(* `gateway` is what the plugin has done to its host and to the agent      *)
(* service: the status it published last (followed under "status"),        *)
(* whether its listeners and handlers are registered, the agents the       *)
(* service lists and the interval of each deployed monitor (0: not         *)
(* deployed).  `missing` names the sub-fields of state that are undefined; *)
(* the telemetry handlers are modelled on a complete state.  onUnload is   *)
(* one step where no event is handled while it awaits the agent service;   *)
(* onUnloadCleanup and onUnloadCallback are its two halves where events    *)
(* are handled in between (gateway.unloading, gateway.callbacks).          *)
(*                                                                         *)
(* `script` is the process monitor the plugin deploys                      *)
(* (src/src/monitors/process-monitor.js): from the raw process list of the *)
(* agent to the telemetry handleProcessData receives.  Process names and   *)
(* patterns are sequences of characters.                                   *)
(***************************************************************************)
EXTENDS Integers, Sequences, FiniteSets, Bags, TLC

\* ------------------------------------------------------------------ bounds

MaxTime == 60
MaxTimers == 3
MaxInflight == 2
MaxJournal == 3

\* --------------------------------------------------------- program constants

gracePeriod == 60
ShutdownHorizon == 3600
BedtimeWarnMinutes == 15
CriticalMinutes == 5
monitorIntervalSeconds == 30

ViolationsCap == 200
ActivityCap == 500

WarningTimes == <<15, 5, 1>>
killOnViolation == TRUE
pauseOnIdle == TRUE

\* ------------------------------------------------------------- the fleet

Agents == {"A1"}
Children == {"C1"}
Users == {"kid", "dad"}

NoChild == "null"
NoUser == "undefined"

\* the local clock at now = 0 is Friday 20:59:00
Today == "fri"
StartSecondOfDay == 20 * 3600 + 59 * 60

\* ------------------------------------------------------ oracle verdicts

RemainingValues == {0, 60, 90, 4000}

Allowance(r) ==
    [allowed |-> TRUE, is_banned |-> FALSE, is_activity_blocked |-> FALSE,
     remaining_seconds |-> r]

Banned ==
    [allowed |-> FALSE, is_banned |-> TRUE, is_activity_blocked |-> FALSE,
     remaining_seconds |-> 0]

NoVerdict ==
    [allowed |-> TRUE, is_banned |-> FALSE, is_activity_blocked |-> FALSE,
     remaining_seconds |-> -1]

ComputerVerdicts == {Banned} \cup {Allowance(r) : r \in RemainingValues}

\* what the service may answer for a child: a verdict for 'computer' and
\* whether 'internet' is allowed
Answers(verdicts, internet) ==
    {[computer |-> v, internet |-> internet] : v \in verdicts}

OracleStates == Answers(ComputerVerdicts, TRUE) \cup Answers(ComputerVerdicts, FALSE)

\* ------------------------------------------------------ process telemetry

Lower(ch) ==
    CASE ch = "M" -> "m"
      [] ch = "C" -> "c"
      [] ch = "E" -> "e"
      [] OTHER -> ch

RECURSIVE toLowerCase(_)
toLowerCase(s) ==
    IF s = <<>> THEN <<>> ELSE <<Lower(Head(s))>> \o toLowerCase(Tail(s))

\* String.prototype.includes: sub occurs in s as a contiguous run
includes(s, sub) ==
    \E i \in 0..(Len(s) - Len(sub)) :
        \A j \in 1..Len(sub) : s[i + j] = sub[j]

Minecraft == [pid |-> 42, name |-> <<"M", "c", ".", "e">>, category |-> "games"]
Chrome == [pid |-> 7, name |-> <<"c", "h">>, category |-> "internet"]

PatternMinecraft == <<"m", "C">>
PatternExe == <<".", "E">>
PatternChrome == <<"C", "h">>

Snapshots ==
    { [browsers |-> <<>>, processes |-> <<>>],
      [browsers |-> <<>>, processes |-> <<Minecraft>>],
      [browsers |-> <<Chrome>>, processes |-> <<Chrome>>],
      [browsers |-> <<Chrome>>, processes |-> <<Chrome, Minecraft>>] }

\* ------------------------------------------------------- child settings

NoBedtime == [enabled |-> FALSE, days |-> {}, hour |-> 0, minute |-> 0]
Bedtime21 == [enabled |-> TRUE, days |-> {"fri"}, hour |-> 21, minute |-> 0]
Bedtime2110 == [enabled |-> TRUE, days |-> {"fri"}, hour |-> 21, minute |-> 10]

BedtimeRules == {NoBedtime, Bedtime21}
BlockLists == {<<>>, <<PatternMinecraft>>}

\* childConfig.focusMode: no profile, and a profile with its blocked apps
NoFocus == [configured |-> FALSE, blockedApps |-> <<>>]
FocusProfile == [configured |-> TRUE, blockedApps |-> <<PatternChrome>>]

\* a schedule of a child's settings: on its days between start and end (seconds
\* of the day) only the allowed categories may run, its blocked patterns may not
Homework ==
    [days |-> {"fri"}, start |-> 15 * 3600, end |-> 22 * 3600,
     allowedCategories |-> {"education", "productivity"},
     blockedProcesses |-> <<PatternMinecraft>>]

\* the report of the session monitor
Session(username, isIdle) == [username |-> username, isIdle |-> isIdle]

\* ------------------------------------------------------- usage tracking

UsageTypes == {"computer", "internet"}

\* the keys `${agentId}:${childId}:${type}`
Keys == Agents \X Children \X UsageTypes

\* usageTracking.get(key) of a key that was never set
NoCell == [startTime |-> -1, lastUpdate |-> -1, totalSeconds |-> 0]

\* ------------------------------------------------------------- the state

VARIABLES
    agents,          \* state.agents
    userMappings,    \* state.userMappings
    parentAccounts,  \* state.parentAccounts
    children,        \* state.children
    oracle,          \* the Allow2 service's current verdicts, per child
    timers,          \* pending setTimeout callbacks (a bag of timer records)
    shutdownTimers,  \* the shutdownTimers map: which agents have an entry
    inflight,        \* checkQuotasAndEnforce calls suspended on the oracle
    now,             \* the clock
    event,           \* the event handled by the last step
    sent,            \* the agent actions triggered by the last step
    \* history kept for the properties (the program holds none of these)
    warned,          \* per agent, the thresholds a quota warning was shown for
    overtaken,       \* per agent, the verdict of its newest evaluation, and when
                     \* it was handled, if an older one was still suspended then
    latestSnapshot,  \* the browsers of the agent's most recent process snapshot
    \* stores the program writes and no handler reads back
    services,        \* context.services: whether allow2Client is there
    followed,        \* which of the stores below the specification follows
    usageTracking,   \* the usageTracking map: a cell per agent:child:type key
    violations,      \* state.violations, newest first
    activityLog,     \* state.activityLog, newest first
    \* history of the followed usage cells
    lastSnapshotAt,  \* per agent, when its latest process snapshot was handled
    lastSeen,        \* per agent, agent.lastSeen: when its latest session report was
    switchedAt,      \* per agent, when the session's username last changed
    \* the plugin and its host
    globalSettings,  \* state.settings: the monitorInterval
    gateway,         \* the status published, whether listeners and handlers are
                     \* registered, the monitors the agent service holds, and
                     \* how far an onUnload has come
    missing          \* the sub-fields of state that are undefined

vars ==
    <<agents, userMappings, parentAccounts, children, oracle, timers, shutdownTimers,
      inflight, now, event, sent, warned, overtaken, latestSnapshot, services, followed,
      usageTracking, violations, activityLog, lastSnapshotAt, lastSeen, switchedAt,
      globalSettings, gateway, missing>>

\* what a step that is no telemetry leaves alone
host == <<globalSettings, gateway, missing>>
usage == <<services, followed, usageTracking, lastSnapshotAt, lastSeen, switchedAt, host>>

NoAgent ==
    [registered |-> FALSE, childId |-> NoChild, enabled |-> FALSE,
     currentSession |-> NoUser, focusModeActive |-> FALSE]

\* an evaluation that was handled: its verdict, what started it, and when
Handled(v, origin, at) == [verdict |-> v, origin |-> origin, at |-> at]

NotOvertaken == Handled(NoVerdict, "", 0)

NoSnapshot == [browsers |-> <<>>, processes |-> <<>>]

Ev(op, a, c, v, origin, newest, latest) ==
    [op |-> op, agentId |-> a, childId |-> c, verdict |-> v, origin |-> origin,
     newest |-> newest, latest |-> latest, data |-> NoSnapshot, error |-> FALSE]

Other == Ev("other", "", NoChild, NoVerdict, "", FALSE, NotOvertaken)

\* a specification that follows none of the stores sees its telemetry as Other
Observe(ev) == IF followed = {} THEN Other ELSE ev

\* a Control API command or a deployment, and whether it returned [error] or
\* threw
Command(op, a, c, error) ==
    [Ev(op, a, c, NoVerdict, "", FALSE, NotOvertaken) EXCEPT !.error = error]

\* ------------------------------------------------------- agent actions

Action(a, id, title, num, reason, user) ==
    [agentId |-> a, actionId |-> id, title |-> title, num |-> num,
     reason |-> reason, username |-> user]

\* a setTimeout callback; `tracked` marks the handle kept in shutdownTimers
Timer(kind, a, due, reason, minutes, tracked) ==
    [kind |-> kind, agentId |-> a, due |-> due, reason |-> reason,
     minutes |-> minutes, tracked |-> tracked]

\* The effect record threaded through one handler: the timers, the
\* shutdownTimers map, the actions triggered and the violations logged so far.
Eff(t, s, out) == [timers |-> t, shutdownTimers |-> s, sent |-> out, log |-> <<>>]

Here == Eff(timers, shutdownTimers, <<>>)

SetTimeout(e, tm) == [e EXCEPT !.timers = @ (+) SetToBag({tm})]

\* clearTimeout(shutdownTimers.get(agentId))
ClearTracked(e, a) ==
    LET keep == {tm \in BagToSet(e.timers) : ~(tm.tracked /\ tm.agentId = a)}
    IN [e EXCEPT !.timers = [tm \in keep |-> e.timers[tm]]]

Trigger(e, act) == [e EXCEPT !.sent = Append(e.sent, act)]

Violation(type, a, processName, reason) ==
    [type |-> type, agentId |-> a, processName |-> processName, reason |-> reason,
     timestamp |-> now]

\* logViolation(violation), up to the journals it is applied to
logViolation(e, violation) == [e EXCEPT !.log = Append(e.log, violation)]

\* the activity logViolation derives: `${type}: ${reason || processName || ''}`
Activity(violation) ==
    [type |-> violation.type,
     message |-> <<violation.type,
                   IF violation.reason # "" THEN violation.reason
                   ELSE violation.processName>>,
     agentId |-> violation.agentId, timestamp |-> violation.timestamp]

\* a ring that puts the entry at the tail and drops the head when full
Push(q, x, cap) ==
    LET r == Append(q, x) IN IF Len(r) > cap THEN SubSeq(r, 2, cap + 1) ELSE r

\* how many entries of a journal were written since the plugin was loaded
\* (those it was loaded with have a timestamp before 0)
Written(q) == Cardinality({k \in 1..Len(q) : q[k].timestamp >= 0})

\* q.unshift(x); if (q.length > cap) q = q.slice(0, cap)
Unshift(q, x, cap) ==
    LET r == <<x>> \o q IN IF Len(r) > cap THEN SubSeq(r, 1, cap) ELSE r

RECURSIVE Logged(_, _, _, _)
Logged(q, entries, cap, k) ==
    IF k > Len(entries) THEN q
    ELSE Logged(Unshift(q, entries[k], cap), entries, cap, k + 1)

\* showTimeWarning(agentId, 'computer', secs / 60)
showTimeWarning(e, a, secs) ==
    IF ~agents[a].registered THEN e
    ELSE Trigger(e, Action(a, "show-warning", "minutes remaining", secs,
                           IF secs <= CriticalMinutes * 60 THEN "critical" ELSE "normal",
                           NoUser))

\* a logout that does not wait
GraceTimerAtOnce(a, reason) == Timer("grace", a, now, reason, 0, FALSE)

\* the untracked setTimeout of enforceLogout
GraceTimer(a, reason) == Timer("grace", a, now + gracePeriod, reason, 0, FALSE)

\* a logout that stops at the warning
enforceLogoutWarningOnly(e, a, c, reason) ==
    IF ~agents[a].registered THEN e
    ELSE Trigger(e, Action(a, "show-warning", "Time is up!", gracePeriod, "critical",
                           NoUser))

\* enforceLogout(agentId, childId, reason)
enforceLogout(e, a, c, reason) ==
    IF ~agents[a].registered THEN e
    ELSE logViolation(
            SetTimeout(
                Trigger(e, Action(a, "show-warning", "Time is up!", gracePeriod, "critical",
                                  NoUser)),
                GraceTimer(a, reason)),
            Violation("quota_exhausted", a, <<>>, reason))

RECURSIVE ScheduleWarnings(_, _, _, _)
ScheduleWarnings(e, a, remainingSeconds, k) ==
    IF k > Len(WarningTimes) THEN e
    ELSE LET warningSeconds == WarningTimes[k] * 60
             armed == IF remainingSeconds > warningSeconds
                      THEN SetTimeout(e, Timer("warning", a,
                                               now + (remainingSeconds - warningSeconds),
                                               "", WarningTimes[k], FALSE))
                      ELSE e
         IN ScheduleWarnings(armed, a, remainingSeconds, k + 1)

\* scheduleShutdown(agentId, childId, remainingSeconds)
scheduleShutdown(e, a, c, remainingSeconds) ==
    LET cleared == IF e.shutdownTimers[a] THEN ClearTracked(e, a) ELSE e
    IN IF remainingSeconds > ShutdownHorizon THEN cleared
       ELSE LET warned_ == ScheduleWarnings(cleared, a, remainingSeconds, 1)
                armed == SetTimeout(warned_, Timer("shutdown", a, now + remainingSeconds,
                                                   "Computer time exhausted", 0, TRUE))
            IN [armed EXCEPT !.shutdownTimers[a] = TRUE]

\* agent.currentProcessData: read at lines 403 and 586, assigned nowhere
currentProcessData(a) == [browsers |-> <<>>, processes |-> <<>>]

RECURSIVE KillBrowsers(_, _, _, _)
KillBrowsers(e, a, browserProcesses, k) ==
    IF k > Len(browserProcesses) THEN e
    ELSE KillBrowsers(
            Trigger(e, Action(a, "kill-process", "", browserProcesses[k].pid,
                              "internet_quota_exhausted", NoUser)),
            a, browserProcesses, k + 1)

\* blockBrowsers(agentId, childId)
blockBrowsers(e, a) ==
    IF ~agents[a].registered THEN e
    ELSE Trigger(KillBrowsers(e, a, currentProcessData(a).browsers, 1),
                 Action(a, "show-warning", "Internet Time Exhausted", 0, "normal", NoUser))

\* checkBedtime(agentId, childId)
checkBedtime(e, a, c) ==
    LET rules == children[c].bedtime
        secondsUntilBedtime ==
            (rules.hour * 3600 + rules.minute * 60) - (StartSecondOfDay + now)
    IN IF ~rules.enabled THEN e
       ELSE IF Today \notin rules.days THEN e
       ELSE IF secondsUntilBedtime <= 0 THEN enforceLogout(e, a, c, "Bedtime reached")
       ELSE IF secondsUntilBedtime <= BedtimeWarnMinutes * 60
            THEN Trigger(e, Action(a, "show-warning", "Bedtime Soon",
                                   (secondsUntilBedtime + 59) \div 60,
                                   IF secondsUntilBedtime <= CriticalMinutes * 60
                                   THEN "critical" ELSE "normal",
                                   NoUser))
       ELSE e

RECURSIVE ProcessWarnings(_, _, _, _)
ProcessWarnings(e, a, remainingSeconds, k) ==
    IF k > Len(WarningTimes) THEN e
    ELSE LET warningTime == WarningTimes[k]
             shown == IF /\ remainingSeconds <= warningTime * 60
                         /\ remainingSeconds > (warningTime - 1) * 60
                      THEN showTimeWarning(e, a, remainingSeconds)
                      ELSE e
         IN ProcessWarnings(shown, a, remainingSeconds, k + 1)

IsBlockedVerdict(v) == v.is_banned \/ v.is_activity_blocked \/ ~v.allowed

\* checkQuotasAndEnforce from the point where checkActivity has answered
\* computerAllowance; internetAllowance is only requested when
\* agent.currentProcessData has browsers
ResumeCheckQuotas(e, a, c, computerAllowance) ==
    LET internetRequested == Len(currentProcessData(a).browsers) > 0
    IN IF IsBlockedVerdict(computerAllowance)
       THEN enforceLogout(e, a, c, "Computer access blocked")
       ELSE LET warned_ == ProcessWarnings(e, a, computerAllowance.remaining_seconds, 1)
            IN IF computerAllowance.remaining_seconds <= 0
               THEN enforceLogout(warned_, a, c, "Computer time exhausted")
               ELSE LET scheduled == scheduleShutdown(warned_, a, c,
                                                      computerAllowance.remaining_seconds)
                        blocked == IF internetRequested /\ ~oracle[c].internet
                                   THEN blockBrowsers(scheduled, a)
                                   ELSE scheduled
                    IN checkBedtime(blocked, a, c)

\* ------------------------------------------------- history bookkeeping

Thresholds == {WarningTimes[k] : k \in 1..Len(WarningTimes)}

IsQuotaWarning(act, t) ==
    /\ act.actionId = "show-warning"
    /\ act.title = "minutes remaining"
    /\ act.num <= t * 60
    /\ act.num > (t - 1) * 60

IsLogoutAction(act) ==
    \/ act.actionId = "logout-user"
    \/ act.actionId = "show-warning" /\ act.title = "Time is up!"

ActsFor(out, a) == SelectSeq(out, LAMBDA act : act.agentId = a)

WarnedIn(out, a) ==
    {t \in Thresholds : \E k \in 1..Len(out) : out[k].agentId = a /\ IsQuotaWarning(out[k], t)}

\* the step triggers `out`
Deliver(out) ==
    /\ sent' = out
    /\ warned' = [a \in Agents |-> warned[a] \cup WarnedIn(out, a)]

Quiet == sent' = <<>> /\ UNCHANGED <<warned, violations, activityLog>>

Apply(e) ==
    /\ BagCardinality(e.timers) <= MaxTimers
    /\ timers' = e.timers
    /\ shutdownTimers' = e.shutdownTimers
    /\ Deliver(e.sent)
    /\ IF "journal" \in followed
       THEN /\ violations' = Logged(violations, e.log, ViolationsCap, 1)
            /\ activityLog' = Logged(activityLog,
                                     [k \in 1..Len(e.log) |-> Activity(e.log[k])],
                                     ActivityCap, 1)
            /\ Written(activityLog') <= MaxJournal
       ELSE UNCHANGED <<violations, activityLog>>

\* an accounting that keeps the latest interval only and forgets the total
updateUsageTrackingForgetful(u, a, c, type, data) ==
    LET key == <<a, c, type>>
        elapsed == IF u[key] = NoCell THEN 0 ELSE now - u[key].lastUpdate
    IN [u EXCEPT ![key] = [startTime |-> now, lastUpdate |-> now,
                           totalSeconds |-> elapsed]]

\* usageTracking.set(key, tracking) in updateUsageTracking(agentId, childId, type, data)
updateUsageTracking(u, a, c, type, data) ==
    LET key == <<a, c, type>>
        tracking == IF u[key] = NoCell
                    THEN [startTime |-> now, lastUpdate |-> now, totalSeconds |-> 0]
                    ELSE u[key]
        elapsed == now - tracking.lastUpdate
        counted == \/ type = "internet" /\ Len(data.browsers) > 0
                   \/ type = "computer" /\ ~data.isIdle
                   \/ type = "computer" /\ data.isIdle /\ ~pauseOnIdle
    IN [u EXCEPT ![key] =
           [startTime |-> tracking.startTime, lastUpdate |-> now,
            totalSeconds |-> tracking.totalSeconds + IF counted THEN elapsed ELSE 0]]

Track(a, c, type, data) ==
    usageTracking' = IF "usage" \in followed
                     THEN updateUsageTracking(usageTracking, a, c, type, data)
                     ELSE usageTracking

\* ------------------------------------------------------------- Init

\* the stores after construction, and a specification that follows none
\* state.settings of the defaults, and a monitorInterval a parent may set
DefaultMonitorInterval == 30000
SlowMonitorInterval == 60000
DefaultSettings == [monitorInterval |-> DefaultMonitorInterval]

\* the monitors of an agent: the interval of each, 0 when it is not deployed
Monitors(session, process) == [session |-> session, process |-> process]
NoMonitors == Monitors(0, 0)

Gateway(status, listening, known, monitors) ==
    [status |-> status, listening |-> listening, known |-> known, monitors |-> monitors,
     unloading |-> FALSE, callbacks |-> 0]

\* the plugin loaded from a complete state with the agent service there, the
\* monitors deployed at the default interval
Loaded ==
    /\ globalSettings = DefaultSettings
    /\ gateway = Gateway("connected", TRUE, Agents,
                         [a \in Agents |-> Monitors(DefaultMonitorInterval,
                                                    DefaultMonitorInterval)])
    /\ missing = {}

Stores(which, allow2Client) ==
    /\ services = [allow2Client |-> allow2Client, agent |-> TRUE]
    /\ Loaded
    /\ followed = which
    /\ usageTracking = [key \in Keys |-> NoCell]
    /\ violations = <<>>
    /\ activityLog = <<>>
    /\ lastSnapshotAt = [a \in Agents |-> 0]
    /\ lastSeen = [a \in Agents |-> 0]
    /\ switchedAt = [a \in Agents |-> 0]

NoStores == Stores({}, TRUE)

Init ==
    /\ agents = [a \in Agents |-> NoAgent]
    /\ userMappings = [a \in Agents |-> [u \in Users |-> NoChild]]
    /\ parentAccounts = [a \in Agents |-> {}]
    /\ children = [c \in Children |-> [blockedProcesses |-> <<>>, bedtime |-> NoBedtime, schedules |-> <<>>, focusMode |-> NoFocus]]
    /\ oracle = [c \in Children |-> [computer |-> Allowance(4000), internet |-> TRUE]]
    /\ timers = EmptyBag
    /\ shutdownTimers = [a \in Agents |-> FALSE]
    /\ inflight = <<>>
    /\ now = 0
    /\ event = Other
    /\ sent = <<>>
    /\ warned = [a \in Agents |-> {}]
    /\ overtaken = [a \in Agents |-> NotOvertaken]
    /\ latestSnapshot = [a \in Agents |-> <<>>]
    /\ NoStores

\* ---------------------------------------------------------- telemetry

\* a checkQuotasAndEnforce call up to `await allow2Client.checkActivity`
Request(a, c, origin) ==
    [agentId |-> a, childId |-> c, origin |-> origin, newest |-> TRUE]

\* `if (!allow2Client) return` ends the call before anything is asked
Suspend(a, c, origin) ==
    IF ~services.allow2Client THEN UNCHANGED <<inflight, overtaken>>
    ELSE /\ Len(inflight) < MaxInflight
         /\ inflight' = Append([k \in 1..Len(inflight) |->
                                   IF inflight[k].agentId = a
                                   THEN [inflight[k] EXCEPT !.newest = FALSE]
                                   ELSE inflight[k]],
                               Request(a, c, origin))
         /\ overtaken' = [overtaken EXCEPT ![a] = NotOvertaken]

\* handleSessionData(agentId, data)
\* a lookup that falls back on the first child
MappedChildOrFirst(a, username) ==
    IF userMappings[a][username] # NoChild THEN userMappings[a][username]
    ELSE CHOOSE c \in Children : TRUE

\* (state.userMappings[agentId] || {})[data.username]
MappedChild(a, username) == userMappings[a][username]

handleSessionData(a, data) ==
    LET username == data.username
        childId == MappedChild(a, username)
    IN /\ agents[a].registered
       /\ agents' = [agents EXCEPT ![a].currentSession = username,
                                   ![a].childId = IF childId # NoChild THEN childId ELSE @]
       /\ IF childId # NoChild /\ username \notin parentAccounts[a]
          THEN /\ Track(a, childId, "computer", data)
               /\ Suspend(a, childId, "session")
          ELSE UNCHANGED <<usageTracking, inflight, overtaken>>
       /\ lastSeen' = IF "usage" \in followed THEN [lastSeen EXCEPT ![a] = now]
                      ELSE lastSeen
       /\ switchedAt' = IF "usage" \in followed /\ username # agents[a].currentSession
                        THEN [switchedAt EXCEPT ![a] = now]
                        ELSE switchedAt
       /\ event' = Observe(Ev("session", a, childId, NoVerdict, "", FALSE, NotOvertaken))
       /\ Quiet
       /\ UNCHANGED <<userMappings, parentAccounts, children, oracle, timers,
                      shutdownTimers, now, latestSnapshot, services, followed, host,
                      lastSnapshotAt>>

\* a test that stops at the first pattern of the list
IsBlockedByFirst(proc, blockedProcesses) ==
    /\ blockedProcesses # <<>>
    /\ includes(toLowerCase(proc.name), toLowerCase(blockedProcesses[1]))

\* blockedProcesses.some(bp => procName.includes(bp.toLowerCase()))
IsBlocked(proc, blockedProcesses) ==
    \E k \in 1..Len(blockedProcesses) :
        includes(toLowerCase(proc.name), toLowerCase(blockedProcesses[k]))

RECURSIVE BlockProcesses(_, _, _, _, _)
BlockProcesses(e, a, processes, blockedProcesses, k) ==
    IF k > Len(processes) THEN e
    ELSE LET proc == processes[k]
             killed == IF killOnViolation
                       THEN Trigger(e, Action(a, "kill-process", "", proc.pid,
                                              "blocked_process", NoUser))
                       ELSE e
             warned_ == logViolation(
                            Trigger(killed, Action(a, "show-warning", "Application Blocked",
                                                   proc.pid, "normal", NoUser)),
                            Violation("blocked_process", a, proc.name, "blocked_list"))
         IN BlockProcesses(IF IsBlocked(proc, blockedProcesses) THEN warned_ ELSE e,
                           a, processes, blockedProcesses, k + 1)

\* handleProcessData(agentId, data)
handleProcessData(a, data) ==
    /\ latestSnapshot' = [latestSnapshot EXCEPT ![a] = data.browsers]
    /\ lastSnapshotAt' = IF "usage" \in followed
                         THEN [lastSnapshotAt EXCEPT ![a] = now]
                         ELSE lastSnapshotAt
    /\ IF agents[a].registered /\ agents[a].childId # NoChild
       THEN /\ IF Len(data.browsers) > 0
               THEN Track(a, agents[a].childId, "internet", data)
               ELSE UNCHANGED usageTracking
            /\ Apply(BlockProcesses(Here, a, data.processes,
                                    children[agents[a].childId].blockedProcesses, 1))
       ELSE Quiet /\ UNCHANGED <<timers, shutdownTimers, usageTracking>>
    /\ event' = Observe([Ev("processes", a, agents[a].childId, NoVerdict, "", FALSE,
                            NotOvertaken) EXCEPT !.data = data])
    /\ UNCHANGED <<agents, userMappings, parentAccounts, children, oracle, inflight, now,
                   overtaken, services, followed, lastSeen, switchedAt, host>>

\* agentService.on('actionResponse'): the agent's answer to an action, with the
\* args the action was triggered with
actionResponse(a, actionId, success, processName, reason) ==
    /\ IF actionId = "kill-process" /\ success
       THEN Apply(logViolation(Here,
                    Violation("process_killed", a, processName,
                              IF reason # "" THEN reason ELSE "quota_enforcement")))
       ELSE Quiet /\ UNCHANGED <<timers, shutdownTimers>>
    /\ event' = Observe(Ev("actionResponse", a, NoChild, NoVerdict, "", FALSE,
                           NotOvertaken))
    /\ UNCHANGED <<agents, userMappings, parentAccounts, children, oracle, inflight, now,
                   overtaken, latestSnapshot, usage>>

\* ------------------------------------------------------------ the oracle

\* the Allow2 service changes what it answers for a child
OracleChange(c, o) ==
    /\ o # oracle[c]
    /\ oracle' = [oracle EXCEPT ![c] = o]
    /\ event' = Other
    /\ Quiet
    /\ UNCHANGED <<agents, userMappings, parentAccounts, children, timers, shutdownTimers,
                   inflight, now, overtaken, latestSnapshot, usage>>

\* the 'stateChange' listener: handleAllow2StateChange(childId, newState).  The
\* fleet has one agent, so the loop over state.agents runs its body at most once.
handleAllow2StateChange(c) ==
    \E a \in Agents :
        /\ agents[a].registered
        /\ agents[a].childId = c
        /\ Suspend(a, c, "stateChange")
        /\ event' = Other
        /\ Quiet
        /\ UNCHANGED <<agents, userMappings, parentAccounts, children, oracle, timers,
                       shutdownTimers, now, latestSnapshot, usage>>

Remove(q, i) == [k \in 1..(Len(q) - 1) |-> IF k < i THEN q[k] ELSE q[k + 1]]

\* which suspended calls may be resumed next: the service answers in any order
Resumable(i) == i \in 1..Len(inflight)

OthersOf(i) == {k \in 1..Len(inflight) : k # i /\ inflight[k].agentId = inflight[i].agentId}

\* checkActivity resolves: the suspended checkQuotasAndEnforce runs to its end
OracleRespond(i) ==
    /\ Resumable(i)
    /\ LET r == inflight[i]
           computerAllowance == oracle[r.childId].computer
           last == ~r.newest /\ OthersOf(i) = {}
       IN /\ Apply(ResumeCheckQuotas(Here, r.agentId, r.childId, computerAllowance))
          /\ event' = Ev("eval", r.agentId, r.childId, computerAllowance, r.origin,
                         r.newest, IF last THEN overtaken[r.agentId] ELSE NotOvertaken)
          /\ overtaken' = [overtaken EXCEPT ![r.agentId] =
                              IF r.newest /\ OthersOf(i) # {}
                              THEN Handled(computerAllowance, r.origin, now)
                              ELSE IF last THEN NotOvertaken ELSE @]
    /\ inflight' = Remove(inflight, i)
    /\ UNCHANGED <<agents, userMappings, parentAccounts, children, oracle, now,
                   latestSnapshot, usage>>

\* a failure that is handled as a blocked verdict
OracleFailClosed(i) ==
    /\ Resumable(i)
    /\ Apply(ResumeCheckQuotas(Here, inflight[i].agentId, inflight[i].childId, Banned))
    /\ inflight' = Remove(inflight, i)
    /\ overtaken' = [overtaken EXCEPT ![inflight[i].agentId] =
                        IF OthersOf(i) = {} THEN NotOvertaken ELSE @]
    /\ event' = Observe(Ev("fail", inflight[i].agentId, inflight[i].childId, NoVerdict,
                           inflight[i].origin, inflight[i].newest, NotOvertaken))
    /\ UNCHANGED <<agents, userMappings, parentAccounts, children, oracle, now,
                   latestSnapshot, usage>>

\* checkActivity rejects: the catch block logs the error
OracleFail(i) ==
    /\ Resumable(i)
    /\ inflight' = Remove(inflight, i)
    /\ overtaken' = [overtaken EXCEPT ![inflight[i].agentId] =
                        IF OthersOf(i) = {} THEN NotOvertaken ELSE @]
    /\ event' = Observe(Ev("fail", inflight[i].agentId, inflight[i].childId, NoVerdict,
                           inflight[i].origin, inflight[i].newest, NotOvertaken))
    /\ Quiet
    /\ UNCHANGED <<agents, userMappings, parentAccounts, children, oracle, timers,
                   shutdownTimers, now, latestSnapshot, usage>>

\* ---------------------------------------------------------------- timers

\* the callback of a fired timer
Callback(e, tm) ==
    CASE tm.kind = "warning" -> showTimeWarning(e, tm.agentId, tm.minutes * 60)
      [] tm.kind = "shutdown" -> enforceLogout(e, tm.agentId, NoChild,
                                               "Computer time exhausted")
      [] OTHER -> Trigger(e, Action(tm.agentId, "logout-user", "", 0, tm.reason,
                                    agents[tm.agentId].currentSession))

Fired(tm) == [Here EXCEPT !.timers = @ (-) SetToBag({tm})]

TimerFire(tm) ==
    /\ tm.due <= now
    /\ Apply(Callback(Fired(tm), tm))
    /\ event' = Other
    /\ UNCHANGED <<agents, userMappings, parentAccounts, children, oracle, inflight, now,
                   overtaken, latestSnapshot, usage>>

Earliest(S) == CHOOSE x \in S : \A y \in S : x <= y

\* time passes, up to the next timer's deadline or the next report
Advance ==
    /\ \A tm \in BagToSet(timers) : tm.due > now
    /\ now' = Earliest({now + monitorIntervalSeconds}
                        \cup {tm.due : tm \in BagToSet(timers)})
    /\ now' <= MaxTime
    /\ event' = Other
    /\ Quiet
    /\ UNCHANGED <<agents, userMappings, parentAccounts, children, oracle, timers,
                   shutdownTimers, inflight, overtaken, latestSnapshot, usage>>

\* ------------------------------------------------------- the Control API

\* os:linkAgent
linkAgent(a, c) ==
    /\ agents' = [agents EXCEPT ![a].registered = TRUE, ![a].childId = c,
                                ![a].enabled = TRUE]
    /\ event' = Observe(Command("linkAgent", a, c, FALSE))
    /\ Quiet
    /\ UNCHANGED <<userMappings, parentAccounts, children, oracle, timers, shutdownTimers,
                   inflight, now, overtaken, latestSnapshot, usage>>

\* os:unlinkAgent
unlinkAgent(a) ==
    /\ agents' = [agents EXCEPT ![a] =
                     IF agents[a].registered
                     THEN [@ EXCEPT !.childId = NoChild, !.enabled = FALSE]
                     ELSE @]
    /\ timers' = (IF shutdownTimers[a] THEN ClearTracked(Here, a) ELSE Here).timers
    /\ shutdownTimers' = [shutdownTimers EXCEPT ![a] = FALSE]
    /\ event' = Ev("unlink", a, NoChild, NoVerdict, "", FALSE, NotOvertaken)
    /\ Quiet
    /\ UNCHANGED <<userMappings, parentAccounts, children, oracle, inflight, now,
                   overtaken, latestSnapshot, usage>>

\* os:setUserMapping
setUserMapping(a, username, c) ==
    /\ userMappings' = [userMappings EXCEPT ![a][username] = c]
    /\ event' = Other
    /\ Quiet
    /\ UNCHANGED <<agents, parentAccounts, children, oracle, timers, shutdownTimers,
                   inflight, now, overtaken, latestSnapshot, usage>>

\* os:setParentAccounts
setParentAccounts(a, accounts) ==
    /\ parentAccounts' = [parentAccounts EXCEPT ![a] = accounts]
    /\ event' = Other
    /\ Quiet
    /\ UNCHANGED <<agents, userMappings, children, oracle, timers, shutdownTimers,
                   inflight, now, overtaken, latestSnapshot, usage>>

\* os:updateChildSettings
updateChildSettings(c, settings) ==
    /\ children' = [children EXCEPT ![c] = settings]
    /\ event' = Other
    /\ Quiet
    /\ UNCHANGED <<agents, userMappings, parentAccounts, oracle, timers, shutdownTimers,
                   inflight, now, overtaken, latestSnapshot, usage>>

\* os:clearViolations
clearViolations ==
    /\ violations' = <<>>
    /\ event' = Observe(Ev("clearViolations", "", NoChild, NoVerdict, "", FALSE,
                           NotOvertaken))
    /\ sent' = <<>>
    /\ UNCHANGED <<agents, userMappings, parentAccounts, children, oracle, timers,
                   shutdownTimers, inflight, now, warned, overtaken, latestSnapshot,
                   activityLog, usage>>

\* os:forceLogout
forceLogout(a) ==
    IF agents[a].registered
    THEN /\ Apply(enforceLogout(Here, a, agents[a].childId, "Manual logout by parent"))
         /\ event' = Other
         /\ UNCHANGED <<agents, userMappings, parentAccounts, children, oracle, inflight,
                        now, overtaken, latestSnapshot, usage>>
    \* 'Agent not found': followed where the commands are observed
    ELSE /\ followed # {}
         /\ event' = Command("forceLogout", a, NoChild, TRUE)
         /\ Quiet
         /\ UNCHANGED <<agents, userMappings, parentAccounts, children, oracle, timers,
                        shutdownTimers, inflight, now, overtaken, latestSnapshot, usage>>

\* "Clear all scheduled shutdowns": every handle in shutdownTimers is cleared
ClearAllShutdowns ==
    LET keep == {tm \in BagToSet(timers) : ~(tm.tracked /\ shutdownTimers[tm.agentId])}
    IN [tm \in keep |-> timers[tm]]

\* onSetEnabled(enabled)
onSetEnabled(enabled) ==
    /\ IF enabled
       THEN UNCHANGED <<timers, shutdownTimers>>
       ELSE /\ timers' = ClearAllShutdowns
            /\ shutdownTimers' = [a \in Agents |-> FALSE]
    /\ event' = IF enabled THEN Other
                ELSE Ev("disable", "", NoChild, NoVerdict, "", FALSE, NotOvertaken)
    /\ Quiet
    /\ gateway' = IF "status" \in followed
                  THEN [gateway EXCEPT !.status = IF enabled THEN "connected"
                                                  ELSE "disconnected"]
                  ELSE gateway
    /\ UNCHANGED <<agents, userMappings, parentAccounts, children, oracle, inflight, now,
                   overtaken, latestSnapshot, services, followed, usageTracking,
                   lastSnapshotAt, lastSeen, switchedAt, globalSettings, missing>>

\* onUnload(callback): the listeners and IPC handlers stay registered
onUnload ==
    /\ timers' = ClearAllShutdowns
    /\ shutdownTimers' = [a \in Agents |-> FALSE]
    /\ event' = Ev("unload", "", NoChild, NoVerdict, "", FALSE, NotOvertaken)
    /\ Quiet
    \* removeMonitor for every agent the agent service lists
    /\ gateway' = IF "status" \in followed /\ services.agent
                  THEN [gateway EXCEPT !.monitors = [a \in Agents |-> NoMonitors]]
                  ELSE gateway
    /\ UNCHANGED <<agents, userMappings, parentAccounts, children, oracle, inflight, now,
                   overtaken, latestSnapshot, services, followed, usageTracking,
                   lastSnapshotAt, lastSeen, switchedAt, globalSettings, missing>>

\* os:triggerFocusMode
triggerFocusMode(a, enabled, c) ==
    /\ IF ~children[c].focusMode.configured
       THEN /\ event' = Command("triggerFocusMode", a, c, TRUE)
            /\ UNCHANGED agents
       ELSE /\ event' = Command("triggerFocusMode", a, c, FALSE)
            /\ agents' = [agents EXCEPT ![a].registered = TRUE,
                                        ![a].focusModeActive = enabled]
    /\ Quiet
    /\ UNCHANGED <<userMappings, parentAccounts, children, oracle, timers, shutdownTimers,
                   inflight, now, overtaken, latestSnapshot, usage>>

\* the monitors after updateMonitor(agent, monitor, interval): a monitor that
\* is not deployed stays so
Updated(mons, a, monitor, interval) ==
    IF mons[a][monitor] = 0 THEN mons ELSE [mons EXCEPT ![a][monitor] = interval]

\* the update loop of os:updateSettings over the listed agents; `outcome` names
\* the call that rejects
RECURSIVE UpdateMonitors(_, _, _, _)
UpdateMonitors(mons, S, interval, outcome) ==
    IF S = {} \/ outcome = "listAgents" THEN mons
    ELSE LET a == CHOOSE x \in S : TRUE
             session == Updated(mons, a, "session", interval)
             process == Updated(session, a, "process", interval)
         IN IF outcome = "session" THEN mons
            ELSE IF outcome = "process" THEN session
            ELSE UpdateMonitors(process, S \ {a}, interval, outcome)

UpdateOutcomes == {"ok", "listAgents", "session", "process"}

\* whether a call of the update loop over the agents S rejects
Rejects(S, outcome) ==
    outcome = "listAgents" \/ (outcome \in {"session", "process"} /\ S # {})

\* os:updateSettings with settings = {monitorInterval: interval}, or with
\* settings of other keys (interval = 0)
updateSettings(interval, outcome) ==
    /\ globalSettings' = IF interval # 0
                         THEN [globalSettings EXCEPT !.monitorInterval = interval]
                         ELSE globalSettings
    /\ gateway' = IF interval # 0
                  THEN [gateway EXCEPT
                           !.monitors = UpdateMonitors(@, gateway.known, interval,
                                                       outcome)]
                  ELSE gateway
    /\ event' = Command("updateSettings", "", NoChild,
                        interval # 0 /\ Rejects(gateway.known, outcome))
    /\ Quiet
    /\ UNCHANGED <<agents, userMappings, parentAccounts, children, oracle, timers,
                   shutdownTimers, inflight, now, overtaken, latestSnapshot, services,
                   followed, usageTracking, lastSnapshotAt, lastSeen, switchedAt, missing>>

\* ------------------------------------------------- loading and deployment

StateFields ==
    {"agents", "userMappings", "parentAccounts", "children", "settings", "violations",
     "activityLog"}

NoChildSettings ==
    [blockedProcesses |-> <<>>, bedtime |-> NoBedtime, schedules |-> <<>>,
     focusMode |-> NoFocus]

\* the state onLoad starts from when loadState is null; `absent` names the
\* sub-fields a state lacks
DefaultState ==
    [agents |-> [a \in Agents |-> NoAgent],
     userMappings |-> [a \in Agents |-> [u \in Users |-> NoChild]],
     parentAccounts |-> [a \in Agents |-> {}],
     children |-> [c \in Children |-> NoChildSettings],
     settings |-> DefaultSettings,
     violations |-> <<>>,
     activityLog |-> <<>>,
     absent |-> {}]

\* the state of a linked fleet as it was persisted, without some sub-fields
SavedFleet(absent) ==
    [agents |-> IF "agents" \in absent THEN DefaultState.agents
                ELSE [a \in Agents |->
                         [registered |-> TRUE, childId |-> "C1", enabled |-> TRUE,
                          currentSession |-> "kid", focusModeActive |-> FALSE]],
     userMappings |-> IF "userMappings" \in absent THEN DefaultState.userMappings
                      ELSE [a \in Agents |-> [u \in Users |-> "C1"]],
     parentAccounts |-> IF "parentAccounts" \in absent THEN DefaultState.parentAccounts
                        ELSE [a \in Agents |-> {"dad"}],
     children |-> DefaultState.children,
     settings |-> IF "settings" \in absent THEN DefaultSettings
                  ELSE [monitorInterval |-> SlowMonitorInterval],
     violations |-> <<>>,
     activityLog |-> <<>>,
     absent |-> absent]

LoadStates ==
    {DefaultState} \cup {SavedFleet({})} \cup {SavedFleet({f}) : f \in StateFields}

\* configurationUpdate(state): the state object the host persists
Persisted ==
    [agents |-> agents, userMappings |-> userMappings, parentAccounts |-> parentAccounts,
     children |-> children, settings |-> globalSettings, violations |-> violations,
     activityLog |-> activityLog, absent |-> missing]

DeployOutcomes == {"ok", "session", "process", "action"}

\* a deployment that forgets the binding
deployToAgentUnbound(st, mons, a, outcome) ==
    [agents |-> [st.agents EXCEPT ![a] = [NoAgent EXCEPT !.registered = TRUE,
                                                          !.enabled = TRUE]],
     monitors |-> [mons EXCEPT ![a] = Monitors(st.settings.monitorInterval,
                                               st.settings.monitorInterval)]]

\* deployToAgent(agent) on state st with the monitors mons: the agents and the
\* monitors afterwards.  `outcome` names the call that rejects; a TypeError on
\* an undefined sub-field ends the deployment like a rejection (line 189).
deployToAgent(st, mons, a, outcome) ==
    LET interval == st.settings.monitorInterval
        session == [mons EXCEPT ![a].session = interval]
        both == [session EXCEPT ![a].process = interval]
    IN IF "settings" \in st.absent \/ outcome = "session"
       THEN [agents |-> st.agents, monitors |-> mons]
       ELSE IF outcome = "process"
       THEN [agents |-> st.agents, monitors |-> session]
       ELSE IF "agents" \in st.absent \/ outcome = "action"
       THEN [agents |-> st.agents, monitors |-> both]
       ELSE [agents |-> [st.agents EXCEPT ![a] =
                            [registered |-> TRUE, enabled |-> TRUE,
                             childId |-> st.agents[a].childId,
                             currentSession |-> NoUser, focusModeActive |-> FALSE]],
             monitors |-> both]

\* for (const agent of agents) await deployToAgent(agent)
RECURSIVE DeployAll(_, _, _, _)
DeployAll(st, mons, S, outcome) ==
    IF S = {} THEN [agents |-> st.agents, monitors |-> mons]
    ELSE LET a == CHOOSE x \in S : TRUE
             r == deployToAgent(st, mons, a, outcome)
         IN DeployAll([st EXCEPT !.agents = r.agents], r.monitors, S \ {a}, outcome)

\* agentService.on('agentDiscovered')
agentDiscovered(a, outcome) ==
    LET r == deployToAgent(Persisted, gateway.monitors, a, outcome)
    IN /\ agents' = r.agents
       /\ gateway' = [gateway EXCEPT !.monitors = r.monitors, !.known = @ \cup {a}]
       \* the event tells whether the deployment threw (line 189)
       /\ event' = Observe(Command("agentDiscovered", a, agents[a].childId,
                                   outcome # "ok" \/ missing # {}))
       /\ Quiet
       /\ UNCHANGED <<userMappings, parentAccounts, children, oracle, timers,
                      shutdownTimers, inflight, now, overtaken, latestSnapshot, services,
                      followed, usageTracking, lastSnapshotAt, lastSeen, switchedAt,
                      globalSettings, missing>>

\* onLoad(loadState) in a fresh plugin instance: no timers, no suspended
\* calls, an empty usageTracking map
onLoad(loadState, outcome) ==
    LET listed == services.agent /\ outcome # "listAgents"
        r == IF listed THEN DeployAll(loadState, gateway.monitors, gateway.known, outcome)
             ELSE [agents |-> loadState.agents, monitors |-> gateway.monitors]
    IN /\ agents' = r.agents
       /\ userMappings' = loadState.userMappings
       /\ parentAccounts' = loadState.parentAccounts
       /\ children' = loadState.children
       /\ globalSettings' = loadState.settings
       /\ violations' = loadState.violations
       /\ activityLog' = loadState.activityLog
       /\ missing' = loadState.absent
       /\ gateway' = Gateway(IF listed THEN "connected" ELSE "error", listed,
                             gateway.known, r.monitors)
       /\ timers' = EmptyBag
       /\ shutdownTimers' = [a \in Agents |-> FALSE]
       /\ inflight' = <<>>
       /\ usageTracking' = [key \in Keys |-> NoCell]
       /\ warned' = [a \in Agents |-> {}]
       /\ overtaken' = [a \in Agents |-> NotOvertaken]
       /\ latestSnapshot' = [a \in Agents |-> <<>>]
       /\ lastSnapshotAt' = [a \in Agents |-> now]
       /\ lastSeen' = [a \in Agents |-> now]
       /\ switchedAt' = [a \in Agents |-> now]
       /\ event' = Ev("load", "", NoChild, NoVerdict, "", FALSE, NotOvertaken)
       /\ sent' = <<>>
       /\ UNCHANGED <<oracle, now, services, followed>>

\* ------------------------------------------------------ the specifications

ChildSettings ==
    {[blockedProcesses |-> b, bedtime |-> t, schedules |-> <<>>, focusMode |-> NoFocus] :
        b \in BlockLists, t \in BedtimeRules}

ControlSnapshots == {d \in Snapshots : d.browsers = <<>>}

\* the snapshots of browsers only
UsageSnapshots == {d \in Snapshots : Len(d.processes) = Len(d.browsers)}

ParentChoices == {{}, {"dad"}}

\* The lifecycle of an agent: link and unlink, user mappings, enabling and
\* unloading, with telemetry, evaluations and timers in between.
Next ==
    \/ \E a \in Agents : handleSessionData(a, Session("kid", FALSE))
    \/ \E c \in Children,
          o \in Answers({Banned, Allowance(60), Allowance(4000)}, TRUE) : OracleChange(c, o)
    \/ \E c \in Children : handleAllow2StateChange(c)
    \/ \E i \in 1..MaxInflight : OracleRespond(i)
    \/ \E i \in 1..MaxInflight : OracleFail(i)
    \/ \E tm \in BagToSet(timers) : TimerFire(tm)
    \/ Advance
    \/ \E a \in Agents, c \in Children : linkAgent(a, c)
    \/ \E a \in Agents : unlinkAgent(a)
    \/ \E a \in Agents, c \in Children \cup {NoChild} : setUserMapping(a, "kid", c)
    \/ \E a \in Agents : forceLogout(a)
    \/ \E b \in BOOLEAN : onSetEnabled(b)
    \/ onUnload

Spec == Init /\ [][Next]_vars

\* A configured fleet: the agent registered and linked, "kid" and "dad" mapped
\* to the child, "kid" logged in.
Fleet(parents, settings) ==
    /\ agents = [a \in Agents |->
                    [registered |-> TRUE, childId |-> "C1", enabled |-> TRUE,
                     currentSession |-> "kid", focusModeActive |-> FALSE]]
    /\ userMappings = [a \in Agents |-> [u \in Users |-> "C1"]]
    /\ parentAccounts = [a \in Agents |-> parents]
    /\ children = [c \in Children |-> settings]
    /\ oracle = [c \in Children |-> [computer |-> Allowance(4000), internet |-> FALSE]]
    /\ timers = EmptyBag
    /\ shutdownTimers = [a \in Agents |-> FALSE]
    /\ inflight = <<>>
    /\ now = 0
    /\ event = Other
    /\ sent = <<>>
    /\ warned = [a \in Agents |-> {}]
    /\ overtaken = [a \in Agents |-> NotOvertaken]
    /\ latestSnapshot = [a \in Agents |-> <<>>]

\* "minecraft" blocked, no bedtime, no parent
InitLinked ==
    /\ Fleet({}, [blockedProcesses |-> <<PatternMinecraft>>, bedtime |-> NoBedtime,
                  schedules |-> <<>>, focusMode |-> NoFocus])
    /\ NoStores

\* Quota enforcement on the configured fleet: telemetry of the child's
\* session, every answer of the service, evaluations and timers.
NextQuota ==
    \/ \E a \in Agents : handleSessionData(a, Session("kid", FALSE))
    \/ \E a \in Agents, d \in UsageSnapshots : handleProcessData(a, d)
    \/ \E c \in Children,
          o \in Answers(ComputerVerdicts, FALSE) : OracleChange(c, o)
    \/ \E c \in Children : handleAllow2StateChange(c)
    \/ \E i \in 1..MaxInflight : OracleRespond(i)
    \/ \E i \in 1..MaxInflight : OracleFail(i)
    \/ \E tm \in BagToSet(timers) : TimerFire(tm)
    \/ Advance
    \/ \E a \in Agents : forceLogout(a)

SpecQuota == InitLinked /\ [][NextQuota]_vars

\* Parent and child sharing the configured fleet: sessions of both users,
\* the parent list and the child's settings changing.
NextParent ==
    \/ \E a \in Agents, u \in Users : handleSessionData(a, Session(u, FALSE))
    \/ \E a \in Agents, d \in ControlSnapshots : handleProcessData(a, d)
    \/ \E c \in Children,
          o \in Answers({Banned, Allowance(60), Allowance(4000)}, FALSE) : OracleChange(c, o)
    \/ \E c \in Children : handleAllow2StateChange(c)
    \/ \E i \in 1..MaxInflight : OracleRespond(i)
    \/ \E tm \in BagToSet(timers) : TimerFire(tm)
    \/ Advance
    \/ \E a \in Agents, p \in ParentChoices : setParentAccounts(a, p)
    \/ \E c \in Children, s \in ChildSettings : updateChildSettings(c, s)

SpecParent == InitLinked /\ [][NextParent]_vars

\* the local clock
SecondsPerDay == 24 * 3600
LocalDay(t) == (StartSecondOfDay + t) \div SecondsPerDay
SecondOfDay(t) == (StartSecondOfDay + t) % SecondsPerDay

\* the instants at which the next report may arrive: on time, late, and the
\* first one after midnight
Instants == {30, 120, 3 * 3600 + 60}

\* no report arrives until instant t (late or lost telemetry, the host asleep)
Lapse(t) ==
    /\ now < t
    /\ \A tm \in BagToSet(timers) : tm.due >= t
    /\ now' = t
    /\ event' = Other
    /\ Quiet
    /\ UNCHANGED <<agents, userMappings, parentAccounts, children, oracle, timers,
                   shutdownTimers, inflight, overtaken, latestSnapshot, usage>>

\* the fleet with "dad" a parent account, nothing blocked and no quota service:
\* the usage cells are followed
InitUsage ==
    /\ Fleet({"dad"}, [blockedProcesses |-> <<>>, bedtime |-> NoBedtime,
                       schedules |-> <<>>, focusMode |-> NoFocus])
    /\ Stores({"usage"}, FALSE)

\* Usage accounting: session and process reports at the instants
NextUsage ==
    \/ \E a \in Agents, u \in Users, idle \in BOOLEAN :
          handleSessionData(a, Session(u, idle))
    \/ \E a \in Agents, d \in UsageSnapshots : handleProcessData(a, d)
    \/ \E t \in Instants : Lapse(t)

SpecUsage == InitUsage /\ [][NextUsage]_vars

ProcessBlockLists ==
    {<<>>, <<PatternMinecraft, PatternExe>>, <<PatternChrome, PatternMinecraft>>}

ProcessSettings ==
    {[blockedProcesses |-> b, bedtime |-> NoBedtime, schedules |-> sc,
      focusMode |-> NoFocus] :
        b \in ProcessBlockLists, sc \in {<<>>, <<Homework>>}}

\* the fleet with nothing blocked yet and no quota service: the journals are
\* followed
InitProcess ==
    /\ Fleet({}, [blockedProcesses |-> <<>>, bedtime |-> NoBedtime, schedules |-> <<>>, focusMode |-> NoFocus])
    /\ Stores({"journal"}, FALSE)

\* Process control: snapshots against the child's block list and schedules
NextProcess ==
    \/ \E a \in Agents, d \in Snapshots : handleProcessData(a, d)
    \/ \E c \in Children, settings \in ProcessSettings : updateChildSettings(c, settings)
    \/ Advance

SpecProcess == InitProcess /\ [][NextProcess]_vars

\* the fleet with a bedtime this evening, in one minute or in eleven
InitBedtime ==
    /\ \E t \in {Bedtime21, Bedtime2110} :
           Fleet({}, [blockedProcesses |-> <<>>, bedtime |-> t, schedules |-> <<>>, focusMode |-> NoFocus])
    /\ NoStores

\* Bedtime: session reports and their evaluations around the bedtime
NextBedtime ==
    \/ \E a \in Agents : handleSessionData(a, Session("kid", FALSE))
    \/ \E c \in Children, o \in Answers({Banned, Allowance(4000)}, FALSE) : OracleChange(c, o)
    \/ \E i \in 1..MaxInflight : OracleRespond(i)
    \/ \E i \in 1..MaxInflight : OracleFail(i)
    \/ \E tm \in BagToSet(timers) : TimerFire(tm)
    \/ Advance

SpecBedtime == InitBedtime /\ [][NextBedtime]_vars

\* the journals the plugin is loaded with: entries of earlier days, the
\* k-th newest written k seconds before the load
OldViolation(k) ==
    [type |-> "blocked_process", agentId |-> "A1", processName |-> Minecraft.name,
     reason |-> "blocked_list", timestamp |-> 0 - k]

JournalRoom == 2

\* the fleet with "minecraft" blocked and journals that lack JournalRoom
\* entries to be full
InitJournal ==
    /\ Fleet({}, [blockedProcesses |-> <<PatternMinecraft>>, bedtime |-> NoBedtime,
                  schedules |-> <<>>, focusMode |-> NoFocus])
    /\ services = [allow2Client |-> FALSE, agent |-> TRUE]
    /\ Loaded
    /\ followed = {"journal"}
    /\ usageTracking = [key \in Keys |-> NoCell]
    /\ violations = [k \in 1..(ViolationsCap - JournalRoom) |-> OldViolation(k)]
    /\ activityLog = [k \in 1..(ActivityCap - JournalRoom) |-> Activity(OldViolation(k))]
    /\ lastSnapshotAt = [a \in Agents |-> 0]
    /\ lastSeen = [a \in Agents |-> 0]
    /\ switchedAt = [a \in Agents |-> 0]

\* The journals: everything that logs a violation, and the clearing
NextJournal ==
    \/ \E a \in Agents, d \in ControlSnapshots : handleProcessData(a, d)
    \/ \E a \in Agents, ok \in BOOLEAN :
          actionResponse(a, "kill-process", ok, Minecraft.name, "")
    \/ \E a \in Agents : forceLogout(a)
    \/ \E tm \in BagToSet(timers) : TimerFire(tm)
    \/ clearViolations
    \/ Advance

SpecJournal == InitJournal /\ [][NextJournal]_vars

\* ------------------------------------------------------------ properties

\* how many pending timers of agent a have one of the kinds
Pending(a, kinds) ==
    LET S == {tm \in BagToSet(timers) : tm.agentId = a /\ tm.kind \in kinds}
    IN BagCardinality([tm \in S |-> timers[tm]])

PendingWarnings(a, t) ==
    LET S == {tm \in BagToSet(timers) :
                 tm.agentId = a /\ tm.kind = "warning" /\ tm.minutes = t}
    IN BagCardinality([tm \in S |-> timers[tm]])

Bound(a) == agents[a].registered /\ agents[a].childId # NoChild

Unlinked(a) == agents[a].registered /\ ~agents[a].enabled

Schedules(v) == ~IsBlockedVerdict(v) /\ v.remaining_seconds > 0

\* C1: for every agent, at most one logout timer is pending, counting the
\* quota-deadline timer of scheduleShutdown and the grace-period timer of
\* enforceLogout.
AtMostOneLogout ==
    \A a \in Agents : Pending(a, {"shutdown", "grace"}) <= 1

\* C2: while the user of an agent's current session is one of the agent's
\* parent accounts, no step triggers an action on that agent.
ParentExemption ==
    \A a \in Agents :
        agents[a].currentSession \in parentAccounts[a] => ActsFor(sent, a) = <<>>

\* C3: an evaluation requested after unlinkAgent(A) and before the next
\* linkAgent(A, .) triggers no action on A.  (A is bound to a child again while
\* still unlinked only through session telemetry that arrived after the unlink,
\* and the newest evaluation of A was requested by that telemetry or later.)
Cancellation ==
    \A a \in Agents :
        (/\ event.op = "eval"
         /\ event.agentId = a
         /\ event.newest
         /\ Unlinked(a)
         /\ agents[a].childId # NoChild)
        => ActsFor(sent, a) = <<>>

\* C4: a quota warning for a threshold of warningTimes is shown at most once
\* on an agent (the runs stay within one local day): no step shows a warning for
\* a threshold that was already warned for.
WarningIdempotence ==
    [][\A a \in Agents : warned[a] \cap WarnedIn(sent', a) = {}]_vars

\* C5: while the service's computer verdict for the child of an agent is
\* blocked and the evaluation started by the stateChange event is still being
\* handled, every action triggered on the agent belongs to a Logout.
OracleAuthority ==
    \A a \in Agents :
        (/\ Bound(a)
         /\ IsBlockedVerdict(oracle[agents[a].childId].computer)
         /\ \E k \in 1..Len(inflight) :
                /\ inflight[k].agentId = a
                /\ inflight[k].origin = "stateChange")
        => \A k \in 1..Len(sent) : sent[k].agentId = a => IsLogoutAction(sent[k])

\* C6: once an evaluation started by a stateChange event has seen time
\* restored, no logout armed for exhausted time is pending for the agent.
OverrideCancelsLogout ==
    \A a \in Agents :
        (/\ event.op = "eval"
         /\ event.agentId = a
         /\ event.origin = "stateChange"
         /\ Schedules(event.verdict))
        => \A tm \in BagToSet(timers) :
               ~(/\ tm.agentId = a
                 /\ tm.kind = "grace"
                 /\ tm.reason = "Computer time exhausted")

\* C7: when unlinkAgent(A) has completed no timer of A is pending, and when
\* onSetEnabled(false) or onUnload has completed no timer is pending at all.
TimersCancelled ==
    \A a \in Agents :
        (\/ event.op = "unlink" /\ event.agentId = a
         \/ event.op \in {"disable", "unload"})
        => Pending(a, {"shutdown", "grace", "warning"}) = 0

\* C8: when two session reports of an agent have both been handled, the
\* tracked shutdown timer is the one the later report's verdict arms: due that
\* verdict's remaining seconds after it was obtained, or none beyond the horizon.
Serialization ==
    \A a \in Agents :
        (/\ event.op = "eval"
         /\ event.agentId = a
         /\ event.origin = "session"
         /\ event.latest.origin = "session"
         /\ Schedules(event.latest.verdict)
         /\ Schedules(event.verdict))
        => {tm.due : tm \in {x \in BagToSet(timers) : x.agentId = a /\ x.tracked}}
             = IF event.latest.verdict.remaining_seconds > ShutdownHorizon THEN {}
               ELSE {event.latest.at + event.latest.verdict.remaining_seconds}

\* C9: for every agent and every threshold of warningTimes, at most one
\* pre-logout warning timer is pending.
OneSetOfWarningTimers ==
    \A a \in Agents : \A t \in Thresholds : PendingWarnings(a, t) <= 1

\* the actions kill every browser of the snapshot and then show the warning
BrowsersBlocked(out, a, browsers) ==
    \E k \in 1..Len(out) :
        /\ out[k] = Action(a, "show-warning", "Internet Time Exhausted", 0, "normal", NoUser)
        /\ \A b \in 1..Len(browsers) :
               \E j \in 1..(k - 1) :
                   /\ out[j].agentId = a
                   /\ out[j].actionId = "kill-process"
                   /\ out[j].num = browsers[b].pid

\* C10: an evaluation that finds computer time left, while the agent's latest
\* process snapshot shows a browser and the service does not allow internet for
\* the child, kills every browser of the snapshot and then shows the
\* 'Internet Time Exhausted' warning.
InternetBlocking ==
    \A a \in Agents :
        (/\ event.op = "eval"
         /\ event.agentId = a
         /\ Schedules(event.verdict)
         /\ latestSnapshot[a] # <<>>
         /\ ~oracle[event.childId].internet)
        => BrowsersBlocked(sent, a, latestSnapshot[a])

\* what a step adds to a usage cell
Added(key) == usageTracking'[key].totalSeconds - usageTracking[key].totalSeconds

\* C11: a step adds to an internet cell no more than the time elapsed since
\* the agent's previous process snapshot: an interval that ended in a snapshot
\* without browsers adds nothing, neither then nor later.
InternetTimeAccounting ==
    [][\A a \in Agents, c \in Children :
          Added(<<a, c, "internet">>) <= now' - lastSnapshotAt[a]]_vars

\* C12: a single telemetry event adds to a usage cell at least 0 and at most
\* 2 x monitorInterval seconds.
ElapsedClamp ==
    [][\A key \in Keys :
          /\ Added(key) >= 0
          /\ Added(key) <= 2 * monitorIntervalSeconds]_vars

\* C13: when the session of an agent comes back to a child's user after
\* reports of another user's session, the time between the first and the last
\* of those reports is not added to the child's computer cell.
SessionSwitchFlushesUsage ==
    [][\A a \in Agents, c \in Children :
          LET key == <<a, c, "computer">>
          IN (/\ agents[a].currentSession # agents'[a].currentSession
              /\ userMappings[a][agents'[a].currentSession] = c
              /\ agents'[a].currentSession \notin parentAccounts[a]
              /\ usageTracking[key] # NoCell)
             => Added(key) <= (now' - usageTracking[key].lastUpdate)
                                - (lastSeen[a] - switchedAt[a])]_vars

\* C14: a cell advanced by a telemetry event of a new local day holds no more
\* than the part of that day that has passed: what the day before accumulated
\* is gone.
DailyReset ==
    \A key \in Keys :
        (/\ usageTracking[key] # NoCell
         /\ LocalDay(usageTracking[key].lastUpdate) > LocalDay(0))
        => usageTracking[key].totalSeconds <= SecondOfDay(usageTracking[key].lastUpdate)

\* C15: no step lowers the accumulated seconds of a usage cell.
AccountingMonotone ==
    [][\A key \in Keys : Added(key) >= 0]_vars

\* a cell that accumulated time and was advanced again without adding any
AccountingMonotoneWitness ==
    \E key \in Keys :
        /\ usageTracking[key].totalSeconds > 0
        /\ usageTracking[key].lastUpdate - usageTracking[key].startTime
             > usageTracking[key].totalSeconds

\* how many actions of the kind the step sent for the pid
Issued(out, a, id, title, pid) ==
    Cardinality({k \in 1..Len(out) :
                    /\ out[k].agentId = a
                    /\ out[k].actionId = id
                    /\ out[k].title = title
                    /\ out[k].num = pid})

\* the process's lower-cased name contains a lower-cased pattern of the list
Matches(proc, patterns) ==
    \E k \in 1..Len(patterns) : includes(toLowerCase(proc.name), toLowerCase(patterns[k]))

\* the kill of the pid comes before the warning about it
KillThenWarning(out, pid) ==
    \E i, j \in 1..Len(out) :
        /\ i < j
        /\ out[i].actionId = "kill-process" /\ out[i].num = pid
        /\ out[j].actionId = "show-warning" /\ out[j].num = pid

KillDeduplication ==
    [][\A a \in Agents, k \in 1..Len(sent), j \in 1..Len(sent') :
          (/\ now' - now < monitorIntervalSeconds
           /\ sent[k].agentId = a /\ sent[k].actionId = "kill-process"
           /\ sent[k].reason = "blocked_process")
          => ~(/\ sent'[j].agentId = a /\ sent'[j].actionId = "kill-process"
               /\ sent'[j].num = sent[k].num)]_vars

\* the schedule applies now
Active(schedule) ==
    /\ Today \in schedule.days
    /\ schedule.start <= SecondOfDay(now)
    /\ SecondOfDay(now) < schedule.end

\* C20: a process snapshot handled while a schedule of the child is active
\* kills every process that matches a blocked pattern of the schedule and is
\* not of an allowed category.
SchedulePass ==
    \A a \in Agents :
        (event.op = "processes" /\ event.agentId = a /\ Bound(a))
        => \A k \in 1..Len(children[agents[a].childId].schedules) :
               LET schedule == children[agents[a].childId].schedules[k]
               IN Active(schedule)
                  => \A p \in 1..Len(event.data.processes) :
                         LET proc == event.data.processes[p]
                         IN (/\ Matches(proc, schedule.blockedProcesses)
                             /\ proc.category \notin schedule.allowedCategories)
                            => Issued(sent, a, "kill-process", "", proc.pid) >= 1

\* C18: an evaluation shows a bedtime warning only when the minutes remaining
\* to the bedtime are one of the thresholds 15, 5 and 1.
BedtimeWarnings ==
    \A k \in 1..Len(sent) :
        (event.op = "eval" /\ sent[k].title = "Bedtime Soon")
        => sent[k].num \in Thresholds

\* the bedtime rule applies today and the local time is at or past the bedtime
BedtimeReached(rules) ==
    /\ rules.enabled
    /\ Today \in rules.days
    /\ StartSecondOfDay + now >= rules.hour * 3600 + rules.minute * 60

\* C19: when the handling of a session report of a monitored child ends at or
\* past the child's bedtime, whether the service answered or failed, the
\* 'Time is up!' warning with the grace period has been shown on the agent.
BedtimeLogout ==
    [][\A i \in 1..Len(inflight) :
          (/\ inflight' = Remove(inflight, i)
           /\ inflight[i].origin = "session"
           /\ BedtimeReached(children[inflight[i].childId].bedtime))
          => \E k \in 1..Len(sent') :
                 sent'[k] = Action(inflight[i].agentId, "show-warning", "Time is up!",
                                   gracePeriod, "critical", NoUser)]_vars

\* r is q with some entries put at its head, cut at the tail to cap entries
HeadInserted(q, r, cap) ==
    \E n \in 0..Len(r) :
        /\ Len(r) = IF Len(q) + n > cap THEN cap ELSE Len(q) + n
        /\ \A k \in (n + 1)..Len(r) : r[k] = q[k - n]

\* C21: the violations list never exceeds 200 entries and the activity log
\* never 500; a step that changes one of them puts the new entries at its head
\* and, when it is full, drops entries from its tail only (clearViolations
\* empties the violations list).
JournalBounds ==
    [][/\ Len(violations') <= ViolationsCap
       /\ Len(activityLog') <= ActivityCap
       /\ violations' = <<>> \/ HeadInserted(violations, violations', ViolationsCap)
       /\ HeadInserted(activityLog, activityLog', ActivityCap)]_vars

\* both journals are full, with entries written since the load at the head,
\* and the oldest entries they were loaded with are gone
JournalBoundsWitness ==
    /\ Len(violations) = ViolationsCap
    /\ Len(activityLog) = ActivityCap
    /\ violations[1].timestamp >= 0
    /\ violations[ViolationsCap] # OldViolation(ViolationsCap - JournalRoom)
    /\ activityLog[ActivityCap] # Activity(OldViolation(ActivityCap - JournalRoom))

\* ----------------------------------------------------- loading the plugin

\* the plugin before onLoad: nothing published, nothing deployed
InitLoad ==
    /\ agents = DefaultState.agents
    /\ userMappings = DefaultState.userMappings
    /\ parentAccounts = DefaultState.parentAccounts
    /\ children = DefaultState.children
    /\ oracle = [c \in Children |-> [computer |-> Allowance(4000), internet |-> FALSE]]
    /\ timers = EmptyBag
    /\ shutdownTimers = [a \in Agents |-> FALSE]
    /\ inflight = <<>>
    /\ now = 0
    /\ event = Other
    /\ sent = <<>>
    /\ warned = [a \in Agents |-> {}]
    /\ overtaken = [a \in Agents |-> NotOvertaken]
    /\ latestSnapshot = [a \in Agents |-> <<>>]
    /\ services \in {[allow2Client |-> FALSE, agent |-> present] : present \in BOOLEAN}
    /\ followed = {"usage", "status"}
    /\ usageTracking = [key \in Keys |-> NoCell]
    /\ violations = <<>>
    /\ activityLog = <<>>
    /\ lastSnapshotAt = [a \in Agents |-> 0]
    /\ lastSeen = [a \in Agents |-> 0]
    /\ switchedAt = [a \in Agents |-> 0]
    /\ globalSettings = DefaultSettings
    /\ gateway = Gateway("none", FALSE, Agents, [a \in Agents |-> NoMonitors])
    /\ missing = {}

\* the last step ended in configurationUpdate(state)
Saved ==
    /\ event.op = "session"
    /\ \/ event.childId = NoChild
       \/ agents[event.agentId].currentSession \notin parentAccounts[event.agentId]

\* the host restarts the plugin on the state it persisted last
Restart(outcome) == Saved /\ onLoad(Persisted, outcome)

\* The host loads the plugin once, enables and disables it, and restarts it;
\* the listeners of a loaded plugin take telemetry.
NextLoad ==
    \/ \E st \in LoadStates, outcome \in DeployOutcomes \cup {"listAgents"} :
          gateway.status = "none" /\ onLoad(st, outcome)
    \/ \E outcome \in DeployOutcomes \cup {"listAgents"} : Restart(outcome)
    \/ \E enabled \in BOOLEAN : gateway.status # "none" /\ onSetEnabled(enabled)
    \/ \E a \in Agents, outcome \in DeployOutcomes :
          gateway.listening /\ missing = {} /\ agentDiscovered(a, outcome)
    \/ \E a \in Agents, u \in Users, idle \in BOOLEAN :
          gateway.listening /\ missing = {} /\ handleSessionData(a, Session(u, idle))
    \/ \E a \in Agents, d \in UsageSnapshots :
          gateway.listening /\ missing = {} /\ handleProcessData(a, d)
    \/ \E t \in Instants : Lapse(t)

SpecLoad == InitLoad /\ [][NextLoad]_vars

\* C22: when the agent service is absent at onLoad, the status is never
\* 'connected' afterwards and no agent action is ever triggered, whatever
\* onSetEnabled calls follow.
FatalLoad ==
    (gateway.status # "none" /\ ~services.agent)
        => (gateway.status # "connected" /\ ~gateway.listening /\ sent = <<>>)

\* C23: after onLoad of a state that lacks a sub-field, the runtime state
\* holds the default of that field: no sub-field of state is undefined.
LoadDefaults == gateway.status # "none" => missing = {}

\* C25: reloading the state last passed to configurationUpdate gives the
\* runtime state there was, usage accumulators included (timers excepted).
RoundTripConfig ==
    [][(gateway.status # "none" /\ event'.op = "load")
          => /\ usageTracking' = usageTracking
             /\ agents' = agents
             /\ userMappings' = userMappings
             /\ parentAccounts' = parentAccounts
             /\ children' = children
             /\ globalSettings' = globalSettings
             /\ violations' = violations
             /\ activityLog' = activityLog]_vars

\* ------------------------------------------------- commands of the Control API

FocusChoices == {NoFocus, FocusProfile}

\* a loaded plugin that has met no agent yet; the child blocks Minecraft and
\* may have a focus profile
InitControl ==
    /\ agents = [a \in Agents |-> NoAgent]
    /\ userMappings = [a \in Agents |-> [u \in Users |-> NoChild]]
    /\ parentAccounts = [a \in Agents |-> {}]
    /\ children \in {[c \in Children |->
                         [blockedProcesses |-> <<PatternMinecraft>>,
                          bedtime |-> NoBedtime, schedules |-> <<>>, focusMode |-> f]] :
                        f \in FocusChoices}
    /\ oracle = [c \in Children |-> [computer |-> Allowance(4000), internet |-> FALSE]]
    /\ timers = EmptyBag
    /\ shutdownTimers = [a \in Agents |-> FALSE]
    /\ inflight = <<>>
    /\ now = 0
    /\ event = Other
    /\ sent = <<>>
    /\ warned = [a \in Agents |-> {}]
    /\ overtaken = [a \in Agents |-> NotOvertaken]
    /\ latestSnapshot = [a \in Agents |-> <<>>]
    /\ services = [allow2Client |-> FALSE, agent |-> TRUE]
    /\ followed = {"status"}
    /\ usageTracking = [key \in Keys |-> NoCell]
    /\ violations = <<>>
    /\ activityLog = <<>>
    /\ lastSnapshotAt = [a \in Agents |-> 0]
    /\ lastSeen = [a \in Agents |-> 0]
    /\ switchedAt = [a \in Agents |-> 0]
    /\ globalSettings = DefaultSettings
    /\ gateway = Gateway("connected", TRUE, {}, [a \in Agents |-> NoMonitors])
    /\ missing = {}

MonitorIntervals == {0, DefaultMonitorInterval, SlowMonitorInterval}

\* The parent's commands on a fleet that is discovered and rediscovered, with
\* process telemetry in between.
NextControl ==
    \/ \E a \in Agents, outcome \in DeployOutcomes : agentDiscovered(a, outcome)
    \/ \E a \in Agents, c \in Children : linkAgent(a, c)
    \/ \E interval \in MonitorIntervals, outcome \in UpdateOutcomes :
          updateSettings(interval, outcome)
    \/ \E a \in Agents, enabled \in BOOLEAN, c \in Children :
          triggerFocusMode(a, enabled, c)
    \/ \E a \in Agents : forceLogout(a)
    \/ \E a \in Agents, d \in Snapshots : handleProcessData(a, d)
    \/ \E tm \in BagToSet(timers) : TimerFire(tm)
    \/ Advance

SpecControl == InitControl /\ [][NextControl]_vars

CommandOps == {"linkAgent", "updateSettings", "triggerFocusMode", "forceLogout"}

\* C24: a Control API command that returns an error leaves the plugin state
\* (settings, agents, mappings, children, journals) as it was.
FailedCommandsKeepState ==
    [][(event'.op \in CommandOps /\ event'.error)
          => UNCHANGED <<globalSettings, agents, userMappings, parentAccounts, children,
                         violations, activityLog>>]_vars

\* C27: while focus mode is active on an agent, a process of its snapshot that
\* matches the focus profile's blocked apps is killed like a blocked process.
FocusModeWidens ==
    [][\A a \in Agents :
          (/\ event'.op = "processes" /\ event'.agentId = a
           /\ Bound(a)
           /\ agents[a].focusModeActive
           /\ children[agents[a].childId].focusMode.configured)
          => LET procs == event'.data.processes
                 focus == children[agents[a].childId].focusMode
             IN \A p \in 1..Len(procs) :
                    Matches(procs[p], focus.blockedApps)
                        => Issued(sent', a, "kill-process", "", procs[p].pid) >= 1]_vars

\* C28: the interval of every deployed monitor is settings.monitorInterval.
MonitorIntervalPropagation ==
    \A a \in Agents :
        \A monitor \in {"session", "process"} :
            gateway.monitors[a][monitor] # 0
                => gateway.monitors[a][monitor] = globalSettings.monitorInterval

\* C29: the redeployment of a rediscovered registered agent keeps its childId.
BindingsPersist ==
    [][\A a \in Agents :
          (event'.op = "agentDiscovered" /\ event'.agentId = a /\ agents[a].registered)
              => agents'[a].childId = agents[a].childId]_vars

\* a bound agent was rediscovered, the deployment went through, and the agent
\* is bound as before
BindingsPersistWitness ==
    \E a \in Agents :
        /\ event.op = "agentDiscovered" /\ event.agentId = a /\ ~event.error
        /\ event.childId # NoChild
        /\ agents[a].childId = event.childId
        /\ gateway.monitors[a].session # 0 /\ gateway.monitors[a].process # 0

\* ------------------------------------------------------------- bindings

\* a loaded plugin with the quota service, no agent bound and no user mapped;
\* the child is banned and blocks Minecraft
InitBinding ==
    /\ agents = [a \in Agents |-> NoAgent]
    /\ userMappings = [a \in Agents |-> [u \in Users |-> NoChild]]
    /\ parentAccounts = [a \in Agents |-> {}]
    /\ children = [c \in Children |->
                      [blockedProcesses |-> <<PatternMinecraft>>, bedtime |-> NoBedtime,
                       schedules |-> <<>>, focusMode |-> NoFocus]]
    /\ oracle = [c \in Children |-> [computer |-> Banned, internet |-> FALSE]]
    /\ timers = EmptyBag
    /\ shutdownTimers = [a \in Agents |-> FALSE]
    /\ inflight = <<>>
    /\ now = 0
    /\ event = Other
    /\ sent = <<>>
    /\ warned = [a \in Agents |-> {}]
    /\ overtaken = [a \in Agents |-> NotOvertaken]
    /\ latestSnapshot = [a \in Agents |-> <<>>]
    /\ Stores({"binding"}, TRUE)

\* Binding and unbinding an agent, mapping and unmapping a user, with the
\* telemetry of the agent and the evaluations it starts.
NextBinding ==
    \/ \E a \in Agents, c \in Children : linkAgent(a, c)
    \/ \E a \in Agents : unlinkAgent(a)
    \/ \E a \in Agents, c \in Children \cup {NoChild} : setUserMapping(a, "kid", c)
    \/ \E a \in Agents, u \in Users : handleSessionData(a, Session(u, FALSE))
    \/ \E a \in Agents, d \in ControlSnapshots : handleProcessData(a, d)
    \/ \E i \in 1..MaxInflight : OracleRespond(i)
    \/ \E i \in 1..MaxInflight : OracleFail(i)
    \/ \E tm \in BagToSet(timers) : TimerFire(tm)
    \/ Advance

SpecBinding == InitBinding /\ [][NextBinding]_vars

\* C26: linkAgent(A, C), when the username of A's current session has no user
\* mapping on A, maps that username to C.
ImplicitMappingOnLink ==
    [][\A a \in Agents :
          (/\ event'.op = "linkAgent" /\ event'.agentId = a
           /\ agents[a].currentSession # NoUser
           /\ userMappings[a][agents[a].currentSession] = NoChild)
          => userMappings'[a][agents[a].currentSession] = event'.childId]_vars

\* the telemetry of a registered agent without childId, from a session whose
\* username has no mapping
Unmapped(a, username) ==
    /\ agents[a].registered
    /\ agents[a].childId = NoChild
    /\ username = NoUser \/ userMappings[a][username] = NoChild

\* C30: session or process telemetry of a registered agent whose childId is
\* null and whose session username is unmapped triggers no action, arms no
\* timer and consults no oracle; at most currentSession (and lastSeen) change.
MissingBinding ==
    [][\A a \in Agents :
          /\ (/\ event'.op = "session" /\ event'.agentId = a
               /\ Unmapped(a, agents'[a].currentSession))
              => /\ sent' = <<>>
                 /\ agents' = [agents EXCEPT
                                   ![a].currentSession = agents'[a].currentSession]
                 /\ UNCHANGED <<timers, shutdownTimers, inflight, usageTracking,
                                userMappings, violations, activityLog, warned>>
          /\ (/\ event'.op = "processes" /\ event'.agentId = a
               /\ Unmapped(a, agents[a].currentSession))
              => /\ sent' = <<>>
                 /\ UNCHANGED <<agents, timers, shutdownTimers, inflight, usageTracking,
                                userMappings, violations, activityLog, warned>>]_vars

\* an unbound agent has reported the session of an unmapped user, and then a
\* snapshot with a process the child blocks, and nothing was done
MissingBindingWitness ==
    \E a \in Agents :
        /\ event.op = "processes" /\ event.agentId = a
        /\ event.data.processes = <<Minecraft>>
        /\ agents[a].registered /\ agents[a].childId = NoChild
        /\ agents[a].currentSession = "kid"
        /\ userMappings[a]["kid"] = NoChild
        /\ sent = <<>> /\ inflight = <<>>

\* ----------------------------------------------------------- enforcement

\* the fleet with the quota service; the child may have a bedtime at 21:00
InitEnforce ==
    /\ \E t \in BedtimeRules :
           Fleet({}, [blockedProcesses |-> <<>>, bedtime |-> t, schedules |-> <<>>,
                      focusMode |-> NoFocus])
    /\ Stores({"oracle"}, TRUE)

\* Enforcement: the session reports of the agent and their evaluations
\* against a service that changes its verdict or fails, and the timers
\* they arm.
NextEnforce ==
    \/ \E a \in Agents : handleSessionData(a, Session("kid", FALSE))
    \/ \E c \in Children,
          o \in Answers({Banned, Allowance(60), Allowance(90)}, FALSE) :
          OracleChange(c, o)
    \/ \E i \in 1..MaxInflight : OracleRespond(i)
    \/ \E i \in 1..MaxInflight : OracleFail(i)
    \/ \E tm \in BagToSet(timers) : TimerFire(tm)
    \/ Advance

SpecEnforce == InitEnforce /\ [][NextEnforce]_vars

\* the pending timers of scheduleShutdown for an agent
Tracked(bag, a) == {tm \in BagToSet(bag) : tm.tracked /\ tm.agentId = a}

Min(x, y) == IF x <= y THEN x ELSE y

\* C31: an evaluation whose oracle check fails triggers no action, and the
\* timers armed before it stay armed with their deadlines; time never passes
\* the deadline of a pending timer, so they fire when they are due.
OracleUnavailable ==
    [][/\ event'.op = "fail"
          => /\ sent' = <<>>
             /\ timers' = timers
             /\ shutdownTimers' = shutdownTimers
       /\ now' # now => \A tm \in BagToSet(timers) : tm.due >= now']_vars

\* an evaluation has failed while the shutdown timer of an earlier one is
\* pending
OracleUnavailableWitness ==
    /\ event.op = "fail"
    /\ Tracked(timers, event.agentId) # {}
    /\ now > 0

\* C32: an evaluation that schedules a logout for an agent with a pending
\* scheduled logout leaves one scheduled logout, due at the earlier of the
\* old and the new deadline.
LogoutSupersession ==
    [][\A a \in Agents :
          (/\ event'.op = "eval" /\ event'.agentId = a
           /\ Schedules(event'.verdict)
           /\ event'.verdict.remaining_seconds <= ShutdownHorizon
           /\ Tracked(timers, a) # {})
          => \A old \in Tracked(timers, a) :
                 /\ Cardinality(Tracked(timers', a)) = 1
                 /\ \A tm \in Tracked(timers', a) :
                        /\ timers'[tm] = 1
                        /\ tm.due = Min(old.due,
                                        now + event'.verdict.remaining_seconds)]_vars

\* how many copies of a timer are pending
Copies(bag, tm) == IF tm \in BagToSet(bag) THEN bag[tm] ELSE 0

IsTimeIsUp(act, a) ==
    /\ act.agentId = a
    /\ act.actionId = "show-warning"
    /\ act.title = "Time is up!"
    /\ act.reason = "critical"

\* C33: a logout-user action on an agent is triggered by a grace timer of the
\* agent that is due, and a grace timer is armed, due gracePeriod seconds
\* later, only by a step that shows the critical 'Time is up!' warning on the
\* agent: the warning precedes every logout by the grace period.
GraceBeforeLogout ==
    [][\A a \in Agents :
          /\ (\E k \in 1..Len(sent') :
                  sent'[k].agentId = a /\ sent'[k].actionId = "logout-user")
              => \E tm \in BagToSet(timers) :
                     /\ tm.kind = "grace" /\ tm.agentId = a
                     /\ tm.due <= now
                     /\ Copies(timers', tm) < Copies(timers, tm)
          /\ \A tm \in BagToSet(timers') :
                 (/\ tm.kind = "grace" /\ tm.agentId = a
                  /\ Copies(timers', tm) > Copies(timers, tm))
                 => /\ tm.due = now + gracePeriod
                    /\ \E k \in 1..Len(sent') : IsTimeIsUp(sent'[k], a)]_vars

\* the logout of an agent was triggered when the grace period was over
GraceBeforeLogoutWitness ==
    /\ now >= gracePeriod
    /\ \E k \in 1..Len(sent) : sent[k].actionId = "logout-user"

\* C34: when the handling of an event issues a Logout for an agent (the
\* 'Time is up!' warning of enforceLogout), nothing of a lower priority (a
\* kill, a quota or bedtime warning) is triggered on the agent before it in
\* the same step.
IntentPriority ==
    [][\A a \in Agents : \A k \in 1..Len(sent') :
          IsTimeIsUp(sent'[k], a)
              => \A j \in 1..(k - 1) :
                     sent'[j].agentId = a => IsLogoutAction(sent'[j])]_vars

\* ------------------------------------------------------ scheduled logouts

InitLive ==
    /\ Fleet({}, [blockedProcesses |-> <<>>, bedtime |-> NoBedtime, schedules |-> <<>>,
                  focusMode |-> NoFocus])
    /\ Stores({"oracle"}, TRUE)

\* the event loop runs the callback of a timer that is due
Fire == \E tm \in BagToSet(timers) : TimerFire(tm)

\* time passes: to the next report, or with no more reports to the next
\* deadline
Clock == Advance \/ \E tm \in BagToSet(timers) : Lapse(tm.due)

\* Session reports arrive until MaxTime; their evaluations, an unlink or a
\* disabling may come at any time, and the timers run to their deadlines.
NextLive ==
    \/ \E a \in Agents : now <= MaxTime /\ handleSessionData(a, Session("kid", FALSE))
    \/ \E c \in Children, o \in Answers({Allowance(60), Allowance(4000)}, FALSE) :
          OracleChange(c, o)
    \/ \E i \in 1..MaxInflight : OracleRespond(i)
    \/ \E a \in Agents : unlinkAgent(a)
    \/ \E enabled \in BOOLEAN : onSetEnabled(enabled)
    \/ Fire
    \/ Clock

\* setTimeout callbacks run when they are due, and time does not stop
SpecLive == InitLive /\ [][NextLive]_vars /\ WF_vars(Fire) /\ WF_vars(Clock)

LoggedOut(a) ==
    \E k \in 1..Len(sent) : sent[k].agentId = a /\ sent[k].actionId = "logout-user"

InitDisable ==
    /\ Fleet({}, [blockedProcesses |-> <<PatternMinecraft>>, bedtime |-> NoBedtime,
                  schedules |-> <<>>, focusMode |-> NoFocus])
    /\ Stores({"status"}, TRUE)

\* The host disables and enables the plugin while its listeners, which
\* stay registered, receive telemetry and stateChange events.
NextDisable ==
    \/ \E enabled \in BOOLEAN : onSetEnabled(enabled)
    \/ \E a \in Agents : handleSessionData(a, Session("kid", FALSE))
    \/ \E a \in Agents, d \in ControlSnapshots : handleProcessData(a, d)
    \/ \E c \in Children, o \in Answers({Banned, Allowance(4000)}, FALSE) :
          OracleChange(c, o)
    \/ \E c \in Children : handleAllow2StateChange(c)
    \/ \E i \in 1..MaxInflight : OracleRespond(i)
    \/ \E tm \in BagToSet(timers) : TimerFire(tm)
    \/ Advance

SpecDisable == InitDisable /\ [][NextDisable]_vars

\* C36: between onSetEnabled(false) and onSetEnabled(true) the process
\* telemetry of an agent triggers no action and arms no timer.
DisableStopsMonitoring ==
    [][(gateway.status = "disconnected" /\ event'.op = "processes")
          => sent' = <<>> /\ timers' = timers]_vars

\* ------------------------------------------- the process monitor's script

\* the pattern lists of the script, in the abbreviated names of the model:
\* 'chrome'; 'minecraft' and 'game'; 'khan'; 'word'
browserPatterns == <<PatternChrome>>
gamePatterns == <<<<"m", "c">>, <<"g", "a">>>>
eduPatterns == <<<<"k", "h">>>>
prodPatterns == <<<<"w", "o">>>>

PatternGame == gamePatterns[2]

\* processes.slice(0, 100)
ReportLimit == 100

\* browser.patterns.some(p => nameLower.includes(p.toLowerCase()))
detectBrowser(processName) ==
    \E k \in 1..Len(browserPatterns) :
        includes(toLowerCase(processName), toLowerCase(browserPatterns[k]))

SomeIncluded(nameLower, patterns) ==
    \E k \in 1..Len(patterns) : includes(nameLower, patterns[k])

\* categorizeProcess(processName): the type and the category
categorizeProcess(processName) ==
    LET nameLower == toLowerCase(processName)
    IN IF SomeIncluded(nameLower, gamePatterns)
       THEN [type |-> "game", category |-> "games"]
       ELSE IF SomeIncluded(nameLower, eduPatterns)
       THEN [type |-> "education", category |-> "education"]
       ELSE IF SomeIncluded(nameLower, prodPatterns)
       THEN [type |-> "productivity", category |-> "productivity"]
       ELSE [type |-> "unknown", category |-> "other"]

\* processInfo of a raw process
processInfo(proc) ==
    [pid |-> proc.pid, name |-> proc.name,
     type |-> IF detectBrowser(proc.name) THEN "browser"
              ELSE categorizeProcess(proc.name).type,
     category |-> IF detectBrowser(proc.name) THEN "internet"
                  ELSE categorizeProcess(proc.name).category]

\* the filter of the returned processes
Interesting(p) ==
    \/ p.type # "unknown"
    \/ includes(toLowerCase(p.name), PatternGame)
    \/ p.category = "internet"

\* a telemetry entry: the fields of processInfo the plugin reads
Reported(p) == [pid |-> p.pid, name |-> p.name, category |-> p.category]

\* script(): the telemetry built from the processes running on the agent
script(rawProcesses) ==
    LET processes == [k \in 1..Len(rawProcesses) |-> processInfo(rawProcesses[k])]
        kept == SelectSeq(processes, Interesting)
        browsers == SelectSeq(processes, LAMBDA p : p.type = "browser")
    IN [browsers |-> [k \in 1..Len(browsers) |-> Reported(browsers[k])],
        processes |-> [k \in 1..Min(Len(kept), ReportLimit) |-> Reported(kept[k])]]

\* what may run on an agent: a game, a browser, and a tool no pattern of the
\* script knows
Updater == [pid |-> 9, name |-> <<".", "e">>]

RawProcesses == {[pid |-> Minecraft.pid, name |-> Minecraft.name],
                 [pid |-> Chrome.pid, name |-> Chrome.name],
                 Updater}

RawLists ==
    {<<>>} \cup {<<p>> : p \in RawProcesses}
           \cup {<<p, q>> : p, q \in RawProcesses}
           \cup {<<p, q, r>> : p, q, r \in RawProcesses}

InitMonitor ==
    /\ Fleet({}, [blockedProcesses |-> <<PatternExe>>, bedtime |-> NoBedtime,
                  schedules |-> <<>>, focusMode |-> NoFocus])
    /\ Stores({"monitor"}, FALSE)

\* The process monitor runs on the agent at its interval and its result is
\* handled by the plugin; the parent edits the block list.
NextMonitor ==
    \/ \E a \in Agents, rawProcesses \in RawLists :
          handleProcessData(a, script(rawProcesses))
    \/ \E c \in Children, settings \in ProcessSettings : updateChildSettings(c, settings)
    \/ Advance

SpecMonitor == InitMonitor /\ [][NextMonitor]_vars

\* C37: whatever processes run on an agent, each of them that matches a
\* blocked pattern of the bound child is in the telemetry of the script and is
\* killed by the blocked-process pass.
BlockedProcessesVisible ==
    [][\A a \in Agents, rawProcesses \in RawLists :
          (/\ event'.op = "processes" /\ event'.agentId = a
           /\ Bound(a)
           /\ event'.data = script(rawProcesses))
          => \A p \in 1..Len(rawProcesses) :
                 Matches(rawProcesses[p], children[agents[a].childId].blockedProcesses)
                     => Issued(sent', a, "kill-process", "", rawProcesses[p].pid) >= 1]_vars

\* ------------------------------------------------- unloading the plugin

\* the monitors after the removal loop of onUnload; `outcome` names the call
\* that rejects
RECURSIVE RemoveMonitors(_, _, _)
RemoveMonitors(mons, S, outcome) ==
    IF S = {} \/ outcome = "listAgents" THEN mons
    ELSE LET a == CHOOSE x \in S : TRUE
             session == [mons EXCEPT ![a].session = 0]
             process == [session EXCEPT ![a].process = 0]
         IN IF outcome = "session" THEN mons
            ELSE IF outcome = "process" THEN session
            ELSE RemoveMonitors(process, S \ {a}, outcome)

\* onUnload(callback) up to `await agentService.listAgents()`: the shutdown
\* timers are cleared.  Without the agent service the call throws at once
\* and the callback runs in the same step.
onUnloadCleanup ==
    /\ ~gateway.unloading /\ gateway.callbacks = 0
    /\ timers' = ClearAllShutdowns
    /\ shutdownTimers' = [a \in Agents |-> FALSE]
    /\ gateway' = IF services.agent THEN [gateway EXCEPT !.unloading = TRUE]
                  ELSE [gateway EXCEPT !.callbacks = @ + 1]
    /\ event' = IF services.agent THEN Other
                ELSE Ev("unload", "", NoChild, NoVerdict, "", FALSE, NotOvertaken)
    /\ Quiet
    /\ UNCHANGED <<agents, userMappings, parentAccounts, children, oracle, inflight, now,
                   overtaken, latestSnapshot, services, followed, usageTracking,
                   lastSnapshotAt, lastSeen, switchedAt, globalSettings, missing>>

\* the rest of onUnload: the removal loop ends or rejects, and callback(null)
onUnloadCallback(outcome) ==
    /\ gateway.unloading
    /\ gateway' = [gateway EXCEPT
                      !.unloading = FALSE,
                      !.callbacks = @ + 1,
                      !.monitors = RemoveMonitors(@, gateway.known, outcome)]
    /\ event' = Ev("unload", "", NoChild, NoVerdict, "", FALSE, NotOvertaken)
    /\ Quiet
    /\ UNCHANGED <<agents, userMappings, parentAccounts, children, oracle, timers,
                   shutdownTimers, inflight, now, overtaken, latestSnapshot, services,
                   followed, usageTracking, lastSnapshotAt, lastSeen, switchedAt,
                   globalSettings, missing>>

\* the plugin loaded on a bound fleet, with the agent service or (status
\* 'error', no listener) without it
InitUnload ==
    /\ Fleet({}, [blockedProcesses |-> <<>>, bedtime |-> NoBedtime, schedules |-> <<>>,
                  focusMode |-> NoFocus])
    /\ services \in {[allow2Client |-> TRUE, agent |-> present] : present \in BOOLEAN}
    /\ globalSettings = DefaultSettings
    /\ gateway = IF services.agent
                 THEN Gateway("connected", TRUE, Agents,
                              [a \in Agents |-> Monitors(DefaultMonitorInterval,
                                                         DefaultMonitorInterval)])
                 ELSE Gateway("error", FALSE, Agents, [a \in Agents |-> NoMonitors])
    /\ missing = {}
    /\ followed = {"status"}
    /\ usageTracking = [key \in Keys |-> NoCell]
    /\ violations = <<>>
    /\ activityLog = <<>>
    /\ lastSnapshotAt = [a \in Agents |-> 0]
    /\ lastSeen = [a \in Agents |-> 0]
    /\ switchedAt = [a \in Agents |-> 0]

\* The host unloads the plugin once; until the callback the listeners take
\* session reports and the service answers.
NextUnload ==
    \/ onUnloadCleanup
    \/ \E outcome \in UpdateOutcomes : onUnloadCallback(outcome)
    \/ \E a \in Agents :
          /\ gateway.listening /\ gateway.callbacks = 0
          /\ handleSessionData(a, Session("kid", FALSE))
    \/ \E c \in Children, o \in Answers({Allowance(60), Allowance(4000)}, FALSE) :
          OracleChange(c, o)
    \/ \E i \in 1..MaxInflight : OracleRespond(i)
    \/ \E tm \in BagToSet(timers) : TimerFire(tm)
    \/ Advance

SpecUnload == InitUnload /\ [][NextUnload]_vars

\* C38: onUnload calls its callback once, and when it does the table of
\* shutdown timers is empty.
UnloadCompletes ==
    [][gateway'.callbacks # gateway.callbacks
          => /\ gateway'.callbacks = 1
             /\ \A a \in Agents : ~shutdownTimers'[a]]_vars

\* C39: an evaluation of agent A that was suspended on the oracle while
\* unlinkAgent(A) completed triggers no action on A when it resumes, and arms
\* no timer of A.  (Under SpecLive every session report binds A to its child
\* again, so an evaluation that resumes while A is unlinked and bound to no
\* child was requested before the unlink.)
UnlinkRacingEvaluation ==
    [][\A a \in Agents :
          (/\ event'.op = "eval"
           /\ event'.agentId = a
           /\ Unlinked(a)
           /\ agents[a].childId = NoChild)
          => /\ ActsFor(sent', a) = <<>>
             /\ \A tm \in BagToSet(timers') :
                   tm.agentId = a => Copies(timers', tm) <= Copies(timers, tm)]_vars

\* --------------------------------------------------- the user logged out

\* "dad" is a parent account of the agent: only the sessions of "kid" are
\* evaluated
InitTarget ==
    /\ Fleet({"dad"}, [blockedProcesses |-> <<>>, bedtime |-> NoBedtime, schedules |-> <<>>,
                       focusMode |-> NoFocus])
    /\ Stores({"oracle"}, TRUE)

\* The users of the agent log in in turn while the logouts the evaluations
\* issued are pending.
NextTarget ==
    \/ \E a \in Agents, u \in Users : handleSessionData(a, Session(u, FALSE))
    \/ \E c \in Children, o \in Answers({Banned, Allowance(60)}, FALSE) : OracleChange(c, o)
    \/ \E i \in 1..MaxInflight : OracleRespond(i)
    \/ \E tm \in BagToSet(timers) : TimerFire(tm)
    \/ Advance

SpecTarget == InitTarget /\ [][NextTarget]_vars

\* C40: a logout-user action names the user whose session caused the Logout
\* to be issued, never a user who logged in afterwards.  (Under SpecTarget
\* every Logout is issued by an evaluation of a session of "kid".)
LogoutTargetsOffender ==
    \A k \in 1..Len(sent) :
        sent[k].actionId = "logout-user" => sent[k].username = "kid"

====
